---- MODULE Spec2Model ----
(***************************************************************************)
(* cargo-bitbake: real_main (src/src/main.rs) as a state machine.          *)
(*                                                                         *)
(* One behaviour is one invocation of the tool: the resolver's snapshot    *)
(* (the list `resolve`, in the resolver's iteration order) and the command *)
(* line flags are fixed by Init; the filter_map closure is run once per    *)
(* resolved package, the collected lines are sorted, the project's own     *)
(* checkout is inspected, the recipe file is opened and written.           *)
(*                                                                         *)
(* Strings are sequences of byte values (ASCII codes), so that format!     *)
(* is concatenation, String::len is Len, slicing is SubSeq and the order   *)
(* used by Vec<String>::sort is the byte-wise lexicographic order.         *)
(***************************************************************************)
EXTENDS Naturals, Sequences, FiniteSets, TLC

VARIABLES
    options,         \* Args: reproducible, no_checksums, legacy_overrides
    resolve,         \* resolve.1.iter(): resolved packages in iteration order
    idx,             \* number of packages the filter_map closure has consumed
    src_uris,        \* Vec<String> collected from the closure, sorted later
    src_uri_extras,  \* Vec<String> pushed by the closure (side variables)
    project_repo,    \* git::ProjectRepo after unwrap_or_else
    repo_err,        \* TRUE iff ProjectRepo::new returned Err
    git_srcpv,       \* the PV append directive
    file,            \* the recipe file: status and the substituted fields
    pc               \* position in real_main

vars == <<options, resolve, idx, src_uris, src_uri_extras, project_repo,
          repo_err, git_srcpv, file, pc>>

----------------------------------------------------------------------------
(* Bounds and program constants *)

\* largest number of packages the resolver yields in one run
MaxDeps == 2

\* main.rs:186  s.len() == 40
FullRevLen == 40

\* main.rs:295/306  project_repo.rev.len() > 10, &project_repo.rev[..10]
PvRevLen == 10

----------------------------------------------------------------------------
(* String literals of main.rs, as byte sequences *)

EmptyStr == <<>>
\* "crates.io"
CRATES_IO_URL == <<99, 114, 97, 116, 101, 115, 46, 105, 111>>
\* "    crate://"
CratePrefix == <<32, 32, 32, 32, 99, 114, 97, 116, 101, 58, 47, 47>>
\* "    "
Indent == <<32, 32, 32, 32>>
\* " \\\n"  (space, backslash, newline)
Continuation == <<32, 92, 10>>
\* "/"
Slash == <<47>>
\* "-"
Dash == <<45>>
\* ";"
Semi == <<59>>
\* ";sha256sum="
Sha256Key == <<59, 115, 104, 97, 50, 53, 54, 115, 117, 109, 61>>
\* ".sha256sum="
Sha256FileKey == <<46, 115, 104, 97, 50, 53, 54, 115, 117, 109, 61>>
\* "SRCREV_FORMAT .= \"_"
SrcrevFormatPrefix == <<83, 82, 67, 82, 69, 86, 95, 70, 79, 82, 77, 65, 84, 32, 46, 61, 32, 34, 95>>
\* "SRCREV_"
SrcrevPrefix == <<83, 82, 67, 82, 69, 86, 95>>
\* " = \""
AssignQuote == <<32, 61, 32, 34>>
\* "\""
Quote == <<34>>
\* "EXTRA_OECARGO_PATHS += \"${WORKDIR}/"
ExtraPathsPrefix == <<69, 88, 84, 82, 65, 95, 79, 69, 67, 65, 82, 71, 79, 95, 80, 65, 84, 72, 83, 32, 43, 61, 32, 34, 36, 123, 87, 79, 82, 75, 68, 73, 82, 125, 47>>
\* "${AUTOREV}"
AUTOREV == <<36, 123, 65, 85, 84, 79, 82, 69, 86, 125>>
\* "master"
Master == <<109, 97, 115, 116, 101, 114>>
\* "PV:append"
PvAppend == <<80, 86, 58, 97, 112, 112, 101, 110, 100>>
\* "PV_append"
PvAppendLegacy == <<80, 86, 95, 97, 112, 112, 101, 110, 100>>
\* " = \".AUTOINC+"
AutoInc == <<32, 61, 32, 34, 46, 65, 85, 84, 79, 73, 78, 67, 43>>
\* "\n"
Newline == <<10>>
\* ";name="
NameTag == <<59, 110, 97, 109, 101, 61>>

----------------------------------------------------------------------------
(* String helpers *)

\* byte-wise lexicographic order of str (Ord for String)
LexLess(a, b) ==
    \E i \in 1..Len(b) :
        /\ i <= Len(a) + 1
        /\ \A j \in 1..(i - 1) : a[j] = b[j]
        /\ (i = Len(a) + 1 \/ a[i] < b[i])

LexLeq(a, b) == a = b \/ LexLess(a, b)

RECURSIVE Join(_, _)
\* [String]::join(sep)
Join(strs, sep) ==
    IF Len(strs) = 0 THEN EmptyStr
    ELSE IF Len(strs) = 1 THEN strs[1]
    ELSE strs[1] \o sep \o Join(Tail(strs), sep)

\* s ends with the bytes of t
EndsWith(s, t) ==
    /\ Len(t) <= Len(s)
    /\ SubSeq(s, Len(s) - Len(t) + 1, Len(s)) = t

\* s starts with the bytes of t
StartsWith(s, t) ==
    /\ Len(t) <= Len(s)
    /\ SubSeq(s, 1, Len(t)) = t

\* t occurs in s as a contiguous substring
Contains(s, t) ==
    \E i \in 0..(Len(s) - Len(t)) : SubSeq(s, i + 1, i + Len(t)) = t

\* an ASCII hexadecimal digit
IsHexDigit(c) == (c >= 48 /\ c <= 57) \/ (c >= 97 /\ c <= 102) \/ (c >= 65 /\ c <= 70)

----------------------------------------------------------------------------
(* Data: names, versions, locators and revisions the resolver may report *)

\* "app": the package being packaged
package_name == <<97, 112, 112>>
\* "foo"
foo == <<102, 111, 111>>
\* "bar"
bar == <<98, 97, 114>>
\* "util"
util == <<117, 116, 105, 108>>
\* "ga"
ga == <<103, 97>>
\* "gb"
gb == <<103, 98>>
\* "1.2.3"
v123 == <<49, 46, 50, 46, 51>>
\* "0.1.0"
v010 == <<48, 46, 49, 46, 48>>
\* "alt.io": a registry other than crates.io
AltRegistryHost == <<97, 108, 116, 46, 105, 111>>
\* "abc123"
abc123 == <<97, 98, 99, 49, 50, 51>>
\* "https://h/r"
GitUrl == <<104, 116, 116, 112, 115, 58, 47, 47, 104, 47, 114>>
\* "sftp://h/x"
OtherUrl == <<115, 102, 116, 112, 58, 47, 47, 104, 47, 120>>
\* "v1.0"
TagV1 == <<118, 49, 46, 48>>
\* "dev"
Dev == <<100, 101, 118>>
\* "deadbeef": an abbreviated commit id
AbbrevRev == <<100, 101, 97, 100, 98, 101, 101, 102>>
\* "deadbeefdeadbeefdeadbeefdeadbeefdeadbeef": a full commit id
FullRev == AbbrevRev \o AbbrevRev \o AbbrevRev \o AbbrevRev \o AbbrevRev
\* "refs/heads/release-candidate-2024-01-rc1": 40 bytes, not a commit id
LongRefRev == <<114, 101, 102, 115, 47, 104, 101, 97, 100, 115, 47, 114, 101, 108, 101, 97, 115, 101, 45, 99, 97, 110, 100, 105, 100, 97, 116, 101, 45, 50, 48, 50, 52, 45, 48, 49, 45, 114, 99, 49>>
\* "0123456789abcdef0123456789abcdef01234567": the commit the lockfile pins
PreciseCommit == <<48, 49, 50, 51, 52, 53, 54, 55, 56, 57, 97, 98, 99, 100, 101, 102, 48, 49, 50, 51, 52, 53, 54, 55, 56, 57, 97, 98, 99, 100, 101, 102, 48, 49, 50, 51, 52, 53, 54, 55>>
\* "0123456789abcdef": a project revision of 16 bytes
ProjectRev16 == SubSeq(PreciseCommit, 1, 16)
\* "0123456789": a project revision of exactly 10 bytes
ProjectRev10 == SubSeq(PreciseCommit, 1, 10)
\* "git://h/app"
ProjectUri == <<103, 105, 116, 58, 47, 47, 104, 47, 97, 112, 112>>

\* Option<&str>
None == [some |-> FALSE, val |-> EmptyStr]
Some(s) == [some |-> TRUE, val |-> s]

\* Result<Option<checksum>>: what package_set.get_one(..).map(..checksum()) gives
ChecksumErr == [kind |-> "Err", crc |-> EmptyStr]
ChecksumNone == [kind |-> "None", crc |-> EmptyStr]
ChecksumSome(c) == [kind |-> "Some", crc |-> c]

\* GitReference
RefTag(s) == [tag |-> "Tag", s |-> s]
RefRev(s) == [tag |-> "Rev", s |-> s]
RefBranch(s) == [tag |-> "Branch", s |-> s]
RefDefaultBranch == [tag |-> "DefaultBranch", s |-> EmptyStr]
NoRef == [tag |-> "none", s |-> EmptyStr]

\* a resolved package whose SourceId is a registry
RegistryPkg(n, v, host, sum) ==
    [name |-> n, version |-> v, kind |-> "registry", host |-> host,
     url |-> EmptyStr, reference |-> NoRef, precise |-> None, checksum |-> sum]

\* a resolved package whose SourceId is a path
PathPkg(n, v) ==
    [name |-> n, version |-> v, kind |-> "path", host |-> EmptyStr,
     url |-> EmptyStr, reference |-> NoRef, precise |-> None, checksum |-> ChecksumNone]

\* a resolved package whose SourceId is a git repository
GitPkg(n, v, ref, prec) ==
    [name |-> n, version |-> v, kind |-> "git", host |-> EmptyStr,
     url |-> GitUrl, reference |-> ref, precise |-> prec, checksum |-> ChecksumNone]

\* a resolved package whose SourceId is none of the three
OtherPkg(n, v, u) ==
    [name |-> n, version |-> v, kind |-> "other", host |-> EmptyStr,
     url |-> u, reference |-> NoRef, precise |-> None, checksum |-> ChecksumNone]

\* the git packages the resolver may yield: every kind of reference, with and
\* without a precise commit
GitPkgs ==
    { GitPkg(ga, v010, RefTag(TagV1), Some(PreciseCommit)),
      GitPkg(ga, v010, RefTag(TagV1), None),
      GitPkg(ga, v010, RefRev(AbbrevRev), Some(PreciseCommit)),
      GitPkg(ga, v010, RefRev(AbbrevRev), None),
      GitPkg(ga, v010, RefRev(FullRev), Some(PreciseCommit)),
      GitPkg(ga, v010, RefRev(LongRefRev), Some(PreciseCommit)),
      GitPkg(ga, v010, RefBranch(Master), Some(PreciseCommit)),
      GitPkg(ga, v010, RefBranch(Dev), Some(PreciseCommit)),
      GitPkg(ga, v010, RefDefaultBranch, Some(PreciseCommit)),
      GitPkg(gb, v010, RefBranch(Master), Some(PreciseCommit)) }

\* the packages the resolver may yield
Universe ==
    { PathPkg(package_name, v010),
      GitPkg(package_name, v123, RefRev(AbbrevRev), None),
      RegistryPkg(foo, v123, CRATES_IO_URL, ChecksumSome(abc123)),
      RegistryPkg(foo, v123, AltRegistryHost, ChecksumNone),
      RegistryPkg(bar, v010, CRATES_IO_URL, ChecksumErr),
      PathPkg(util, v010),
      OtherPkg(util, v123, OtherUrl) }
    \cup GitPkgs

\* the orders in which the resolver may yield up to MaxDeps distinct packages
ResolveOrders ==
    { s \in UNION { [1..n -> Universe] : n \in 0..MaxDeps } :
        \A i, j \in DOMAIN s : i # j => s[i] # s[j] }

\* Args (the flags that reach the translation)
OptionsSet ==
    [reproducible : BOOLEAN, no_checksums : BOOLEAN, legacy_overrides : BOOLEAN]

----------------------------------------------------------------------------
(* The filter_map closure of real_main *)

\* get_checksum: the suffix of a registry line
get_checksum(pkg) ==
    IF pkg.checksum.kind = "Some"
    THEN Sha256Key \o pkg.checksum.crc \o Semi \o pkg.name \o Dash \o pkg.version
         \o Sha256FileKey \o pkg.checksum.crc
    ELSE EmptyStr

\* RegistryLine with the no_checksums test lost: the suffix is always looked up
RegistryLineAlwaysChecksum(pkg, opts) ==
    CratePrefix \o CRATES_IO_URL \o Slash \o pkg.name \o Slash \o pkg.version
    \o get_checksum(pkg) \o Continuation

\* the line of a registry package
RegistryLine(pkg, opts) ==
    IF opts.no_checksums
    THEN CratePrefix \o CRATES_IO_URL \o Slash \o pkg.name \o Slash \o pkg.version
         \o Continuation
    ELSE CratePrefix \o CRATES_IO_URL \o Slash \o pkg.name \o Slash \o pkg.version
         \o get_checksum(pkg) \o Continuation

\* git::git_to_yocto_git_url(url, Some(name), GitPrefix::default()): the fetch
\* URL, tagged with the dependency's name
git_to_yocto_git_url(url, name) == url \o NameTag \o name

\* PreciseIfReproducible with the reproducible test lost
PreciseAlways(pkg, opts) == pkg.precise

\* let precise = if options.reproducible { precise_git_fragment() } else { None }
PreciseIfReproducible(pkg, opts) ==
    IF opts.reproducible THEN pkg.precise ELSE None

\* GitRev with the abbreviated Rev used as it is instead of panicking
GitRevNoPanic(pkg, opts) ==
    LET precise == IF opts.reproducible THEN pkg.precise ELSE None
        ref == pkg.reference
    IN  IF precise.some THEN [panic |-> FALSE, rev |-> precise.val]
        ELSE IF ref.tag = "Tag" THEN [panic |-> FALSE, rev |-> ref.s]
        ELSE IF ref.tag = "Rev" THEN
            IF Len(ref.s) = FullRevLen THEN [panic |-> FALSE, rev |-> ref.s]
            ELSE IF pkg.precise.some THEN [panic |-> FALSE, rev |-> pkg.precise.val]
            ELSE [panic |-> FALSE, rev |-> ref.s]
        ELSE IF ref.tag = "Branch" THEN
            IF ref.s = Master THEN [panic |-> FALSE, rev |-> AUTOREV]
            ELSE [panic |-> FALSE, rev |-> ref.s]
        ELSE [panic |-> FALSE, rev |-> AUTOREV]

\* let rev = ...: the revision, or the panic of an abbreviated Rev with no
\* precise commit.  src_id.git_reference() is Some for every git source, so
\* the `?` of main.rs:183 never leaves the closure.
GitRev(pkg, opts) ==
    LET precise == PreciseIfReproducible(pkg, opts)
        ref == pkg.reference
    IN  IF precise.some THEN [panic |-> FALSE, rev |-> precise.val]
        ELSE IF ref.tag = "Tag" THEN [panic |-> FALSE, rev |-> ref.s]
        ELSE IF ref.tag = "Rev" THEN
            IF Len(ref.s) = FullRevLen THEN [panic |-> FALSE, rev |-> ref.s]
            ELSE IF pkg.precise.some THEN [panic |-> FALSE, rev |-> pkg.precise.val]
            ELSE [panic |-> TRUE, rev |-> EmptyStr]
        ELSE IF ref.tag = "Branch" THEN
            IF ref.s = Master THEN [panic |-> FALSE, rev |-> AUTOREV]
            ELSE [panic |-> FALSE, rev |-> ref.s]
        ELSE [panic |-> FALSE, rev |-> AUTOREV]

\* src_uri_extras.push(format!("SRCREV_FORMAT .= \"_{}\"", pkg.name()))
SrcrevFormatLine(name) == SrcrevFormatPrefix \o name \o Quote

\* GitSideVars with the path registration forgotten
GitSideVarsNoPath(name, rev) ==
    << SrcrevPrefix \o name \o AssignQuote \o rev \o Quote >>

\* the two pushes after the revision is known: SRCREV_<name>, EXTRA_OECARGO_PATHS
GitSideVars(name, rev) ==
    << SrcrevPrefix \o name \o AssignQuote \o rev \o Quote,
       ExtraPathsPrefix \o name \o Quote >>

\* IsSelf comparing the whole package id instead of the name
IsSelfById(pkg) == pkg.name = package_name /\ pkg.version = v010 /\ pkg.kind = "path"

\* pkg.name() == package.name()
IsSelf(pkg) == pkg.name = package_name

\* one call of the closure: the Option<String> it returns, what it pushes to
\* src_uri_extras, and whether it panics
Closure(pkg, opts) ==
    IF IsSelf(pkg) THEN [line |-> None, extras |-> <<>>, panic |-> FALSE]
    ELSE IF pkg.kind = "registry"
    THEN [line |-> Some(RegistryLine(pkg, opts)), extras |-> <<>>, panic |-> FALSE]
    ELSE IF pkg.kind = "path" THEN [line |-> None, extras |-> <<>>, panic |-> FALSE]
    ELSE IF pkg.kind = "git" THEN
        LET url == git_to_yocto_git_url(pkg.url, pkg.name)
            r == GitRev(pkg, opts)
        IN  IF r.panic
            THEN [line |-> None, extras |-> <<SrcrevFormatLine(pkg.name)>>,
                  panic |-> TRUE]
            ELSE [line |-> Some(Indent \o url \o Continuation),
                  extras |-> <<SrcrevFormatLine(pkg.name)>>
                             \o GitSideVars(pkg.name, r.rev),
                  panic |-> FALSE]
    ELSE [line |-> Some(Indent \o pkg.url \o Continuation), extras |-> <<>>,
          panic |-> FALSE]

RECURSIVE Insert(_, _)
\* x placed before the first element greater than it
Insert(x, s) ==
    IF Len(s) = 0 THEN <<x>>
    ELSE IF LexLess(x, Head(s)) THEN <<x>> \o s
    ELSE <<Head(s)>> \o Insert(x, Tail(s))

\* SortLines with the sort forgotten
SortLinesNoop(s) == s

RECURSIVE SortLines(_)
\* src_uris.sort()
SortLines(s) ==
    IF Len(s) = 0 THEN <<>> ELSE Insert(Head(s), SortLines(Tail(s)))

RECURSIVE CollectLines(_, _)
\* resolve.1.iter().filter_map(closure).collect(): the lines of a whole pass
CollectLines(order, opts) ==
    IF Len(order) = 0 THEN <<>>
    ELSE LET c == Closure(Head(order), opts)
         IN  (IF c.line.some THEN <<c.line.val>> ELSE <<>>)
             \o CollectLines(Tail(order), opts)

\* src_uri = src_uris.join("") of a whole pass over `order`
SrcUriBlock(order, opts) == Join(SortLines(CollectLines(order, opts)), EmptyStr)

----------------------------------------------------------------------------
(* The project's own checkout *)

\* Default::default() of git::ProjectRepo
ProjectRepoDefault == [uri |-> EmptyStr, rev |-> EmptyStr, tag |-> FALSE]

\* what git::ProjectRepo::new can return on success
ProjectRepoOutcomes ==
    { [uri |-> ProjectUri, rev |-> ProjectRev10, tag |-> FALSE],
      [uri |-> ProjectUri, rev |-> ProjectRev16, tag |-> FALSE],
      [uri |-> ProjectUri, rev |-> ProjectRev16, tag |-> TRUE] }

\* GitSrcPv with >= in place of >
GitSrcPvOffByOne(repo, opts) ==
    IF ~repo.tag /\ Len(repo.rev) >= PvRevLen
    THEN (IF opts.legacy_overrides THEN PvAppendLegacy ELSE PvAppend)
         \o AutoInc \o SubSeq(repo.rev, 1, PvRevLen) \o Quote
    ELSE EmptyStr

\* let git_srcpv = ...
GitSrcPv(repo, opts) ==
    IF ~repo.tag /\ Len(repo.rev) > PvRevLen
    THEN (IF opts.legacy_overrides THEN PvAppendLegacy ELSE PvAppend)
         \o AutoInc \o SubSeq(repo.rev, 1, PvRevLen) \o Quote
    ELSE EmptyStr

----------------------------------------------------------------------------
(* The run *)

\* the recipe file before real_main touches it
FileUntouched ==
    [status |-> "untouched", src_uri |-> EmptyStr, src_uri_extras |-> EmptyStr,
     project_src_uri |-> EmptyStr, project_src_rev |-> EmptyStr,
     git_srcpv |-> EmptyStr]

Init ==
    /\ options \in OptionsSet
    /\ resolve \in ResolveOrders
    /\ idx = 0
    /\ src_uris = <<>>
    /\ src_uri_extras = <<>>
    /\ project_repo = ProjectRepoDefault
    /\ repo_err = FALSE
    /\ git_srcpv = EmptyStr
    /\ file = FileUntouched
    /\ pc = "iter"

\* the closure runs on the next resolved package (main.rs:133-220)
ClosureStep ==
    /\ pc = "iter"
    /\ idx < Len(resolve)
    /\ LET c == Closure(resolve[idx + 1], options)
       IN  /\ src_uri_extras' = src_uri_extras \o c.extras
           /\ src_uris' = IF c.line.some THEN Append(src_uris, c.line.val)
                          ELSE src_uris
           /\ pc' = IF c.panic THEN "panicked" ELSE "iter"
    /\ idx' = idx + 1
    /\ UNCHANGED <<options, resolve, project_repo, repo_err, git_srcpv, file>>

\* the iterator is exhausted: collect() returns and the list is sorted
\* (main.rs:221-224)
SortStep ==
    /\ pc = "iter"
    /\ idx = Len(resolve)
    /\ src_uris' = SortLines(src_uris)
    /\ pc' = "sorted"
    /\ UNCHANGED <<options, resolve, idx, src_uri_extras, project_repo, repo_err,
                   git_srcpv, file>>

\* the manifest names a homepage or a repository, or neither, which is fatal
\* (main.rs:239-252)
HomepageStep ==
    /\ pc = "sorted"
    /\ \E found \in BOOLEAN : pc' = IF found THEN "metadata" ELSE "error"
    /\ UNCHANGED <<options, resolve, idx, src_uris, src_uri_extras, project_repo,
                   repo_err, git_srcpv, file>>

\* ProjectRepo::new succeeds or fails; git_srcpv is computed (main.rs:288-311)
ProjectRepoStep ==
    /\ pc = "metadata"
    /\ \/ /\ repo_err' = TRUE
          /\ project_repo' = ProjectRepoDefault
       \/ /\ repo_err' = FALSE
          /\ project_repo' \in ProjectRepoOutcomes
    /\ git_srcpv' = GitSrcPv(project_repo', options)
    /\ pc' = "srcpv"
    /\ UNCHANGED <<options, resolve, idx, src_uris, src_uri_extras, file>>

\* OpenOptions ... .open(&recipe_path): creates or truncates the file, or fails
\* (main.rs:317-323)
OpenStep ==
    /\ pc = "srcpv"
    /\ \/ /\ file' = [file EXCEPT !.status = "truncated"]
          /\ pc' = "opened"
       \/ /\ file' = file
          /\ pc' = "error"
    /\ UNCHANGED <<options, resolve, idx, src_uris, src_uri_extras, project_repo,
                   repo_err, git_srcpv>>

\* write!(file, template, ...): the fields are substituted, or the write fails
\* and leaves the truncated file (main.rs:326-347)
WriteStep ==
    /\ pc = "opened"
    /\ \/ /\ file' = [status |-> "written",
                      src_uri |-> Join(src_uris, EmptyStr),
                      src_uri_extras |-> Join(src_uri_extras, Newline),
                      project_src_uri |-> project_repo.uri,
                      project_src_rev |-> project_repo.rev,
                      git_srcpv |-> git_srcpv]
          /\ pc' = "done"
       \/ /\ file' = file
          /\ pc' = "error"
    /\ UNCHANGED <<options, resolve, idx, src_uris, src_uri_extras, project_repo,
                   repo_err, git_srcpv>>

Next ==
    \/ ClosureStep
    \/ SortStep
    \/ HomepageStep
    \/ ProjectRepoStep
    \/ OpenStep
    \/ WriteStep

Spec == Init /\ [][Next]_vars

----------------------------------------------------------------------------
(* Vocabulary of the properties *)

\* the packages the closure has consumed so far, in encounter order
Processed == SubSeq(resolve, 1, idx)

\* a git-sourced dependency other than the package being packaged
IsGitDep(p) == p.kind = "git" /\ p.name # package_name

\* a suppressed package: the self package (by name) or a path source
IsSuppressed(p) == p.name = package_name \/ p.kind = "path"

\* a package that is expected to contribute a source-URI line
Contributes(p) == ~IsSuppressed(p)

\* the git dependencies consumed so far, in encounter order
GitDepsSeen == SelectSeq(Processed, IsGitDep)

\* the contributing packages consumed so far, in encounter order
ContribSeen == SelectSeq(Processed, Contributes)

\* a git dependency whose Rev is abbreviated and has no precise commit
HasUnusableRev(p) ==
    /\ IsGitDep(p)
    /\ p.reference.tag = "Rev"
    /\ Len(p.reference.s) < 40
    /\ ~p.precise.some

\* a full-length commit identifier: 40 hexadecimal characters
IsFullCommitId(r) == Len(r) = 40 /\ \A i \in 1..Len(r) : IsHexDigit(r[i])

\* the revision assignment line of dependency `name`
SrcrevLine(name, rev) == SrcrevPrefix \o name \o AssignQuote \o rev \o Quote

\* all the orders in which the resolver could have yielded the same packages
OrdersOf(s) ==
    { [i \in 1..Len(s) |-> s[f[i]]] : f \in Permutations(1..Len(s)) }

----------------------------------------------------------------------------
(* Properties *)

\* C1: when some git dependency (not the self package) has an abbreviated Rev
\* and no precise commit, the run never gets past the building of the
\* source-URI list: it is still iterating or has panicked, it has panicked as
\* soon as that dependency was consumed, and the recipe file is untouched,
\* whatever the flags and the other dependencies.
C1_AbortBeforeOutput ==
    (\E i \in 1..Len(resolve) : HasUnusableRev(resolve[i])) =>
        /\ pc \in {"iter", "panicked"}
        /\ file = FileUntouched
        /\ (\E i \in 1..idx : HasUnusableRev(resolve[i])) => pc = "panicked"

C1_Witness ==
    /\ pc = "panicked"
    /\ idx = 2
    /\ Contributes(resolve[1])
    /\ HasUnusableRev(resolve[2])
    /\ options.reproducible
    /\ file = FileUntouched

\* C2: the revision assigned to a git dependency is the precise commit when
\* reproducibility is on and a precise commit exists; otherwise Tag(t) gives t,
\* Branch("master") gives ${AUTOREV}, any other Branch(b) gives b and
\* DefaultBranch gives ${AUTOREV} (a present precise commit is then ignored).
C2_RevisionPriority ==
    \A k \in 1..Len(GitDepsSeen) :
        LET p == GitDepsSeen[k]
            ref == p.reference
        IN  3 * k <= Len(src_uri_extras) =>
              /\ (options.reproducible /\ p.precise.some) =>
                    src_uri_extras[3 * k - 1] = SrcrevLine(p.name, p.precise.val)
              /\ (~(options.reproducible /\ p.precise.some) /\ ref.tag = "Tag") =>
                    src_uri_extras[3 * k - 1] = SrcrevLine(p.name, ref.s)
              /\ (~(options.reproducible /\ p.precise.some) /\ ref.tag = "Branch"
                    /\ ref.s = Master) =>
                    src_uri_extras[3 * k - 1] = SrcrevLine(p.name, AUTOREV)
              /\ (~(options.reproducible /\ p.precise.some) /\ ref.tag = "Branch"
                    /\ ref.s # Master) =>
                    src_uri_extras[3 * k - 1] = SrcrevLine(p.name, ref.s)
              /\ (~(options.reproducible /\ p.precise.some)
                    /\ ref.tag = "DefaultBranch") =>
                    src_uri_extras[3 * k - 1] = SrcrevLine(p.name, AUTOREV)

C2_Witness ==
    /\ pc = "done"
    /\ ~options.reproducible
    /\ Len(resolve) = 2
    /\ resolve[1] = GitPkg(ga, v010, RefTag(TagV1), Some(PreciseCommit))
    /\ resolve[2] = GitPkg(gb, v010, RefBranch(Master), Some(PreciseCommit))
    /\ src_uri_extras[2] = SrcrevLine(ga, TagV1)
    /\ src_uri_extras[5] = SrcrevLine(gb, AUTOREV)

\* C3: once sorted, the source-URI lines are in ascending order; the block
\* written to the recipe is their concatenation and is the block that every
\* other iteration order of the same packages gives under the same flags.
C3_SortedAndOrderIndependent ==
    /\ pc \in {"sorted", "metadata", "srcpv", "opened", "done"} =>
          \A i \in 1..(Len(src_uris) - 1) : LexLeq(src_uris[i], src_uris[i + 1])
    /\ pc = "done" =>
          /\ file.src_uri = Join(src_uris, EmptyStr)
          /\ \A order \in OrdersOf(resolve) :
                SrcUriBlock(order, options) = file.src_uri

C3_Witness ==
    /\ pc = "done"
    /\ Len(src_uris) = 2
    /\ LexLess(src_uris[1], src_uris[2])
    /\ CollectLines(resolve, options) = <<src_uris[2], src_uris[1]>>

\* C4 (as claimed): the final source-URI block holds no rendered line twice.
C4_NoDuplicateLines ==
    pc = "done" =>
        \A i, j \in 1..Len(src_uris) : i # j => src_uris[i] # src_uris[j]

\* C5: a step of the closure on the self package (matched by name, whatever
\* its version and source) or on a path-sourced package adds no source-URI
\* line and no side-variable line, and does not stop the run.
C5_SuppressedAddNothing ==
    [][(pc = "iter" /\ idx < Len(resolve) /\ IsSuppressed(resolve[idx + 1])) =>
          /\ src_uris' = src_uris
          /\ src_uri_extras' = src_uri_extras
          /\ pc' \in {"iter", "sorted"}]_vars

C5_Witness ==
    /\ pc = "done"
    /\ Len(resolve) = 2
    /\ IsGitDep(resolve[1])
    /\ resolve[2] = GitPkg(package_name, v123, RefRev(AbbrevRev), None)
    /\ Len(src_uris) = 1
    /\ Len(src_uri_extras) = 3

\* C6: the version directive is `<key> = ".AUTOINC+<first 10 bytes of the
\* revision>"` exactly when the project is not at a tag and its revision is
\* longer than 10 bytes, with key PV:append, or PV_append under legacy
\* overrides; otherwise it is empty, in particular when the introspection
\* failed; the recipe gets that directive.
C6_VersionDirective ==
    /\ git_srcpv =
          IF ~project_repo.tag /\ Len(project_repo.rev) > 10
          THEN (IF options.legacy_overrides THEN PvAppendLegacy ELSE PvAppend)
               \o AutoInc \o SubSeq(project_repo.rev, 1, 10) \o Quote
          ELSE EmptyStr
    /\ repo_err => (project_repo = ProjectRepoDefault /\ git_srcpv = EmptyStr)
    /\ pc = "done" => file.git_srcpv = git_srcpv

C6_Witness ==
    /\ pc = "done"
    /\ options.legacy_overrides
    /\ ~project_repo.tag
    /\ project_repo.rev = ProjectRev16
    /\ file.git_srcpv = PvAppendLegacy \o AutoInc \o ProjectRev10 \o Quote

\* C7 (as claimed): the line of a registry dependency names the host of the
\* dependency's own registry.
C7_RegistryOwnHost ==
    pc \in {"iter", "panicked"} =>
        \A k \in 1..Len(src_uris) :
            LET p == ContribSeen[k]
            IN  p.kind = "registry" =>
                  StartsWith(src_uris[k],
                      CratePrefix \o p.host \o Slash \o p.name \o Slash \o p.version)

\* C8: the line of a registry dependency ends with
\* ;sha256sum=<digest>;<name>-<version>.sha256sum=<digest> exactly when
\* no_checksums is off and the lookup gave a digest; otherwise it has no
\* checksum suffix and the run goes on; the lines of git and other-URL
\* dependencies have none, and path dependencies have no line.
C8_ChecksumSuffix ==
    pc \in {"iter", "panicked"} =>
        \A k \in 1..Len(src_uris) :
            LET p == ContribSeen[k]
                annotated == ~options.no_checksums /\ p.checksum.kind = "Some"
                suffix == Sha256Key \o p.checksum.crc \o Semi \o p.name \o Dash
                          \o p.version \o Sha256FileKey \o p.checksum.crc
                stem == Slash \o p.name \o Slash \o p.version
            IN  /\ p.kind # "path"
                /\ (p.kind = "registry" /\ annotated) =>
                      EndsWith(src_uris[k], stem \o suffix \o Continuation)
                /\ (p.kind = "registry" /\ ~annotated) =>
                      /\ EndsWith(src_uris[k], stem \o Continuation)
                      /\ ~Contains(src_uris[k], Sha256Key)
                /\ p.kind # "registry" => ~Contains(src_uris[k], Sha256Key)

C8_Witness ==
    /\ pc = "iter"
    /\ idx = 2
    /\ ~options.no_checksums
    /\ resolve[1] = RegistryPkg(foo, v123, CRATES_IO_URL, ChecksumSome(abc123))
    /\ resolve[2] = RegistryPkg(bar, v010, CRATES_IO_URL, ChecksumErr)
    /\ Len(src_uris) = 2
    /\ Contains(src_uris[1], Sha256Key \o abc123)
    /\ ~Contains(src_uris[2], Sha256Key)

\* C9: in a run that completes, every git dependency other than the self
\* package has one source-URI line, and the side-variable block is, for those
\* dependencies in encounter order, the triple SRCREV_FORMAT, SRCREV_<name>,
\* EXTRA_OECARGO_PATHS; nothing else is in the block.
C9_GitTriples ==
    pc = "done" =>
        LET G == SelectSeq(resolve, IsGitDep)
        IN  /\ Len(src_uri_extras) = 3 * Len(G)
            /\ Len(src_uris) = Len(SelectSeq(resolve, Contributes))
            /\ file.src_uri_extras = Join(src_uri_extras, Newline)
            /\ \A k \in 1..Len(G) :
                  /\ src_uri_extras[3 * k - 2] = SrcrevFormatPrefix \o G[k].name \o Quote
                  /\ StartsWith(src_uri_extras[3 * k - 1],
                                SrcrevPrefix \o G[k].name \o AssignQuote)
                  /\ EndsWith(src_uri_extras[3 * k - 1], Quote)
                  /\ src_uri_extras[3 * k] = ExtraPathsPrefix \o G[k].name \o Quote
                  /\ Cardinality({ i \in 1..Len(src_uris) :
                        src_uris[i] = Indent \o git_to_yocto_git_url(G[k].url, G[k].name)
                                      \o Continuation })
                     = Cardinality({ j \in 1..Len(G) :
                        G[j].url = G[k].url /\ G[j].name = G[k].name })

C9_Witness ==
    /\ pc = "done"
    /\ Len(resolve) = 2
    /\ IsGitDep(resolve[1]) /\ resolve[1].name = gb
    /\ IsGitDep(resolve[2]) /\ resolve[2].name = ga
    /\ Len(src_uri_extras) = 6
    /\ StartsWith(src_uri_extras[1], SrcrevFormatPrefix \o gb)
    /\ StartsWith(src_uri_extras[4], SrcrevFormatPrefix \o ga)

\* C10 (as claimed): in a run that completes, a git dependency with Rev(r) to
\* which the reproducibility rule does not apply is pinned to r only if r is
\* a full commit identifier (40 hexadecimal characters), and to the precise
\* commit for every other r.
C10_RevOnlyFullCommitId ==
    pc = "done" =>
        LET G == SelectSeq(resolve, IsGitDep)
        IN  \A k \in 1..Len(G) :
              (G[k].reference.tag = "Rev"
                 /\ ~(options.reproducible /\ G[k].precise.some)) =>
                 IF IsFullCommitId(G[k].reference.s)
                 THEN src_uri_extras[3 * k - 1] = SrcrevLine(G[k].name, G[k].reference.s)
                 ELSE /\ G[k].precise.some
                      /\ src_uri_extras[3 * k - 1]
                           = SrcrevLine(G[k].name, G[k].precise.val)

====
